---- MODULE Spec2Model ----
(***************************************************************************)
(* Vote casting and tallying of the Mipripity backend.                     *)
(*                                                                         *)
(* The handlers of routes/votes.js (cast, retract) and of the single-file  *)
(* server (statistics) work on one database.                               *)
(* The votes table lives in PostgreSQL (READ COMMITTED, the default of the *)
(* pg pool).  Node runs any number of handler invocations at once: the     *)
(* invocations in flight are a bag, every `await` of a handler is one step *)
(* of its invocation, and the steps of different invocations interleave    *)
(* freely.  A statement sent through db.query is its own transaction;      *)
(* createOrUpdateVote runs BEGIN .. COMMIT on one client, its write        *)
(* becomes visible at COMMIT and holds the row lock (UPDATE) or the        *)
(* unique-index entry (INSERT) until then.                                 *)
(***************************************************************************)
EXTENDS Integers, Sequences, FiniteSets, Bags, TLC

(* ---- bounds ---------------------------------------------------------- *)
NumUsers == 1
NumProps == 1
MaxRequests == 3
MaxCount == 3

UserIds == 1..NumUsers
PropIds == 1..NumProps

(* ---- seed data of 001_initial_schema.sql ----------------------------- *)
\* categories, in the order the seed inserts them (id SERIAL = position)
SeedCategories == <<"Residential", "Commercial", "Land", "Material">>

\* vote_options.category_id, in the order the seed inserts the rows
\* (id SERIAL = position)
SeedVoteOptions == <<1, 1, 1, 1, 2, 2, 2, 2, 2, 3, 3, 3, 3, 4, 4, 4, 4>>

OptionIds == 1..Len(SeedVoteOptions)

OptionCategory(o) == SeedVoteOptions[o]

VoteOptionsTable == {[id |-> o, category_id |-> OptionCategory(o)] : o \in OptionIds}

(* ---- request values as they arrive in the JSON body ------------------ *)
DigitChars == <<"0", "1", "2", "3", "4", "5", "6", "7", "8", "9">>

IsDigit(c) == \E i \in 1..10 : DigitChars[i] = c

DigitVal(c) == (CHOOSE i \in 1..10 : DigitChars[i] = c) - 1

NaN == -1

RECURSIVE DigitPrefixLen(_)
DigitPrefixLen(s) ==
  IF s = <<>> \/ ~IsDigit(Head(s)) THEN 0 ELSE 1 + DigitPrefixLen(Tail(s))

RECURSIVE DigitsValue(_)
DigitsValue(s) ==
  IF s = <<>> THEN 0 ELSE 10 * DigitsValue(SubSeq(s, 1, Len(s) - 1)) + DigitVal(s[Len(s)])

\* JavaScript parseInt: the longest prefix of digits, NaN when there is none
parseInt(s) ==
  IF DigitPrefixLen(s) = 0 THEN NaN ELSE DigitsValue(SubSeq(s, 1, DigitPrefixLen(s)))

\* PostgreSQL integer input of a text parameter: every character a digit,
\* anything else is "invalid input syntax for type integer" (NaN here)
PgInteger(s) ==
  IF s # <<>> /\ DigitPrefixLen(s) = Len(s) THEN DigitsValue(s) ELSE NaN

\* JavaScript truthiness of a body field: absent or empty is falsy
Falsy(s) == s = <<>>

RECURSIVE Decimal(_)
Decimal(n) ==
  IF n < 10 THEN <<DigitChars[n + 1]>> ELSE Decimal(n \div 10) \o <<DigitChars[(n % 10) + 1]>>

\* the option ids clients send: two options of Residential, one of Commercial
CastOptionIds == {1, 2, 5}

\* the categories a property is moved to: Residential and Commercial
RequestCategories == {1, 2}

\* the category property p was created in: the categories in turn
InitialCategory(p) == ((p - 1) % Len(SeedCategories)) + 1

\* the vote_option_id values a client sends: absent, an option id, the id of
\* no option, and an option id followed by a non-digit
RawOptionIds ==
  {<<>>} \cup {Decimal(o) : o \in CastOptionIds}
         \cup {Decimal(Len(SeedVoteOptions) + 1), Decimal(1) \o <<"x">>}

\* the property ids a client sends: every property and an id of no property
RequestPropIds == 1..(NumProps + 1)

\* req.body.user_id of POST /api/votes: absent (0), a user's id or an id of no user
BodyUserIds == {0, 1, NumUsers + 1}

\* req.body.vote_option_id of the casts that carry a user_id
BodyOptionIds == {Decimal(1), Decimal(5)}

\* who a request's Authorization header stands for: 0 when there is no Bearer
\* token or verifyIdToken rejects it, a user's id when the token is that
\* user's, NumUsers + 1 for a valid token whose uid is in no users row
TokenUsers == 0..(NumUsers + 1)

\* property_id of the body of POST /property_images, 0 when the body has none
ImagePropertyIds == 0..(NumProps + 1)

\* :id of PATCH and PUT /property_images/:id
RequestImageIds == 1..(NumProps + 1)

(* ---- rows ------------------------------------------------------------- *)
NoVote == [id |-> 0, property_id |-> 0, user_id |-> 0, vote_option_id |-> 0]

NoPend == [op |-> "none", id |-> 0]

\* user is req.user.id; body_user_id is req.body.user_id, 0 when the body has none;
\* image_id is req.params.id and is_primary req.body.is_primary of the
\* property_images routes
Request(kind, u, p, raw) ==
  [kind |-> kind, user |-> u, property_id |-> p, vote_option_id |-> raw, body_user_id |-> 0,
   image_id |-> 0, is_primary |-> FALSE]

\* res.status(status).json(..) of the handler of route kind
Response(kind, status, error, vote, stats, total) ==
  [kind |-> kind, status |-> status, error |-> error, vote |-> vote, statistics |-> stats,
   total_votes |-> total]

NoResponse == Response("none", 0, "", NoVote, {}, 0)

\* a handler invocation at its first await, with its locals
Handler(r, at) ==
  [req |-> r, pc |-> at, existing |-> FALSE, pend |-> NoPend, result |-> NoVote,
   statistics |-> {}]

VARIABLES
  votes,        \* committed rows of table votes
  nextId,       \* next value of sequence votes_id_seq
  properties,   \* properties.category_id by id, 0 when the row is deleted
  inflight,     \* bag of the handler invocations in flight, each with
                \*   req        the request it serves
                \*   pc         the await it is at
                \*   existing   createOrUpdateVote: existingVote.rows.length > 0
                \*   pend       the uncommitted write of its open transaction
                \*   result     createOrUpdateVote: result.rows[0]
                \*   statistics stats handler: result.rows
  response,     \* the response sent by the step just taken, NoResponse if none
  served,       \* requests accepted so far
  submitted,    \* history: options of the casts accepted for a pair
  lastApplied,  \* history: option of the last cast that committed a write on a pair
  checkedOut,   \* clients of db.pool checked out by pool.connect() and not released
  openTxns,     \* transactions begun on a checked-out client and not ended
  users,        \* ids of the rows of table users
  running,      \* the server process has not exited
  migrations,   \* table migrations: "absent", "empty", or "recorded" when it has
                \*   the row of 001_initial_schema.sql
  schemaRuns,   \* history: commits of the statements of 001_initial_schema.sql
  images,       \* rows of table property_images: id, property_id, is_primary
  nextImageId   \* next value of sequence property_images_id_seq

vars == <<votes, nextId, properties, inflight, response, served, submitted, lastApplied,
          checkedOut, openTxns, users, running, migrations, schemaRuns, images, nextImageId>>

Running == BagToSet(inflight)

\* the invocations in flight besides h
Others(h) == BagToSet(inflight (-) SetToBag({h}))

(* ---- queries ---------------------------------------------------------- *)
PairRows(rows, p, u) == {r \in rows : r.property_id = p /\ r.user_id = u}

\* PropertyModel.getPropertyById: the properties row, null (0) when absent
getPropertyById(p) == IF p \in PropIds THEN properties[p] ELSE 0

\* a middleware that calls next() for every request
authenticateAnyone(u) == TRUE

\* authMiddleware: the token's user is looked up in table users
authenticate(u) == u \in users

\* properties.user_id
PropertyOwner(p) == ((p - 1) % NumUsers) + 1

\* VoteModel.getVoteOptionsByCategory
getVoteOptionsByCategory(c) == {vo \in VoteOptionsTable : vo.category_id = c}

\* voteOptions.some(option => option.id === parseInt(vote_option_id))
validOption(c, raw) == \E option \in getVoteOptionsByCategory(c) : option.id = parseInt(raw)

\* the tables with the seed data, users and properties, and an idle server
InitTables ==
  /\ votes = {}
  /\ nextId = 1
  /\ properties = [p \in PropIds |-> InitialCategory(p)]
  /\ inflight = EmptyBag
  /\ response = NoResponse
  /\ served = 0
  /\ submitted = [p \in PropIds |-> [u \in UserIds |-> {}]]
  /\ lastApplied = [p \in PropIds |-> [u \in UserIds |-> 0]]
  /\ checkedOut = 0
  /\ openTxns = 0
  /\ users = UserIds
  /\ running = TRUE
  /\ images = {}
  /\ nextImageId = 1

\* a database that runMigrations has set up
Init ==
  /\ InitTables
  /\ migrations = "recorded"
  /\ schemaRuns = 1

\* a database whose tables were made without runMigrations (by
\* forceRunMigrations or by hand): it has no row in migrations
InitMigrate ==
  /\ InitTables
  /\ migrations \in {"absent", "empty"}
  /\ schemaRuns = 0

\* a request arrives
Arrive ==
  /\ running
  /\ served < MaxRequests
  /\ served' = served + 1

\* the request starts a handler invocation that stops at its first await
Start(h) ==
  /\ inflight' = inflight (+) SetToBag({h})
  /\ response' = NoResponse

\* invocation h goes on to its next await as h2
Goto(h, h2) ==
  /\ inflight' = (inflight (-) SetToBag({h})) (+) SetToBag({h2})
  /\ response' = NoResponse

\* invocation h sends its response: it is over and its locals are gone
Respond(h, status, error, vote, stats, total) ==
  /\ inflight' = inflight (-) SetToBag({h})
  /\ response' = Response(h.req.kind, status, error, vote, stats, total)

Fail(h, status, error) == Respond(h, status, error, NoVote, {}, 0)

\* the handler answers request r before its first await on a write
Reject(r, status, error) ==
  /\ response' = Response(r.kind, status, error, NoVote, {}, 0)
  /\ UNCHANGED inflight

(* ---- POST /api/votes -------------------------------------------------- *)
\* routes/votes.js 14-44: authenticate, field check, property lookup, option
\* check, for a request of user u whose body also carries user_id b
PostVoteBody(u, b, p, raw) ==
  LET r == [Request("cast", u, p, raw) EXCEPT !.body_user_id = b]
      ok == /\ authenticate(u)
            /\ ~Falsy(raw)
            /\ getPropertyById(p) # 0
            /\ validOption(getPropertyById(p), raw)
  IN
  /\ Arrive
  /\ IF ~authenticate(u)
       THEN Reject(r, 401, "unauthorized")
       ELSE IF Falsy(raw)
         THEN Reject(r, 400, "missing")
         ELSE IF getPropertyById(p) = 0
           THEN Reject(r, 404, "not_found")
           ELSE IF ~validOption(getPropertyById(p), raw)
             THEN Reject(r, 400, "invalid_option")
             ELSE Start(Handler(r, "cov_select"))
  /\ submitted' = IF ok /\ PgInteger(raw) # NaN
                    THEN [submitted EXCEPT ![p][u] = @ \cup {PgInteger(raw)}]
                    ELSE submitted
  /\ UNCHANGED <<votes, nextId, properties, lastApplied, checkedOut, openTxns, users, running,
                 migrations, schemaRuns, images, nextImageId>>

\* a request whose body has no user_id
PostVote(u, p, raw) == PostVoteBody(u, 0, p, raw)

\* a route that takes the voter from the request body (NULL when absent)
ActingUserFromBody(r) == r.body_user_id

\* routes/votes.js 49 and 218: user_id: req.user.id
ActingUser(r) == r.user

(* ---- VoteModel.createOrUpdateVote ------------------------------------ *)
\* the row lock of another open transaction's UPDATE on the pair's row
RowLocked(h, p, u) ==
  \E h2 \in Others(h) :
    h2.pend.op = "update" /\ h2.req.property_id = p /\ h2.req.user = u

\* an INSERT that does not wait for an uncommitted entry of the unique index
InsertNeverWaits(h, p, u) == FALSE

\* the uncommitted unique-index entry of another open transaction's INSERT
InsertPending(h, p, u) ==
  \E h2 \in Others(h) :
    h2.pend.op = "insert" /\ h2.req.property_id = p /\ h2.req.user = u

\* the votes table without its UNIQUE(property_id, user_id) constraint
NoUniqueConstraint(rows, p, u) == FALSE

\* UNIQUE(property_id, user_id)
UniqueViolation(rows, p, u) == PairRows(rows, p, u) # {}

\* the repeat vote written as a second row instead of an update in place
UpdateVotesAddsRow(rows, p, u, o) ==
  rows \cup {[id |-> 0, property_id |-> p, user_id |-> u, vote_option_id |-> o]}

\* the repeat vote written as DELETE and INSERT: the row comes back under a new id
UpdateVotesReplacesRow(rows, p, u, o) ==
  {IF r.property_id = p /\ r.user_id = u
     THEN [r EXCEPT !.id = @ + 1, !.vote_option_id = o] ELSE r : r \in rows}

\* an UPDATE that leaves the stored option as it is
UpdateVotesKeepsOption(rows, p, u, o) == rows

\* UPDATE votes SET vote_option_id = $1 WHERE property_id = $2 AND user_id = $3
UpdateVotes(rows, p, u, o) ==
  {IF r.property_id = p /\ r.user_id = u THEN [r EXCEPT !.vote_option_id = o] ELSE r : r \in rows}

\* an INSERT with user_id and vote_option_id bound in the wrong order
InsertVoteSwapped(rows, id, p, u, o) ==
  rows \cup {[id |-> id, property_id |-> p, user_id |-> o, vote_option_id |-> u]}

\* INSERT INTO votes (property_id, user_id, vote_option_id) VALUES ($1, $2, $3)
InsertVote(rows, id, p, u, o) ==
  rows \cup {[id |-> id, property_id |-> p, user_id |-> u, vote_option_id |-> o]}

\* a call that returns with its client still checked out
releaseSkipped(n) == n

\* voteModel.js 55: finally { client.release() }
release(n) == n - 1

\* voteModel.js 47-55: the call returns or throws: COMMIT, or ROLLBACK in the
\* catch block, ends its transaction and the finally block releases its client
EndCall ==
  /\ openTxns' = openTxns - 1
  /\ checkedOut' = release(checkedOut)

\* voteModel.js 15-24: connect, BEGIN, SELECT * FROM votes WHERE property_id AND user_id
createOrUpdateVoteSelect(h) ==
  /\ h.pc = "cov_select"
  /\ Goto(h, [h EXCEPT !.pc = "cov_write",
                       !.existing = PairRows(votes, h.req.property_id, ActingUser(h.req)) # {}])
  /\ checkedOut' = checkedOut + 1
  /\ openTxns' = openTxns + 1
  /\ UNCHANGED <<votes, nextId, properties, served, submitted, lastApplied, users, running,
                 migrations, schemaRuns, images, nextImageId>>

\* an UPDATE that returns the row as it was before the update
UpdateReturningOld(hit, o) ==
  IF hit = {} THEN NoVote ELSE CHOOSE r \in hit : TRUE

\* UPDATE .. RETURNING *: result.rows[0], the updated row, none when no row matched
UpdateReturning(hit, o) ==
  IF hit = {} THEN NoVote ELSE [(CHOOSE r \in hit : TRUE) EXCEPT !.vote_option_id = o]

\* voteModel.js 28-36: the UPDATE branch; 50-56 and routes/votes.js 57-63
\* when the statement throws
createOrUpdateVoteUpdate(h) ==
  LET p == h.req.property_id
      u == ActingUser(h.req)
      o == PgInteger(h.req.vote_option_id)
      hit == PairRows(votes, p, u)
  IN
  /\ h.pc = "cov_write"
  /\ h.existing
  /\ IF o = NaN
       THEN Fail(h, 500, "22P02")
       ELSE /\ ~RowLocked(h, p, u)
            /\ Goto(h, [h EXCEPT
                 !.pc = "cov_commit",
                 !.pend = IF hit = {} THEN NoPend ELSE [op |-> "update", id |-> 0],
                 !.result = UpdateReturning(hit, o)])
  /\ IF o = NaN THEN EndCall ELSE UNCHANGED <<checkedOut, openTxns>>
  /\ UNCHANGED <<votes, nextId, properties, served, submitted, lastApplied, users, running,
                 migrations, schemaRuns, images, nextImageId>>

\* votes.property_id REFERENCES properties(id), votes.user_id REFERENCES users(id)
\* (a NULL user_id, 0, references nothing and is not checked)
ForeignKeyViolation(p, u) == getPropertyById(p) = 0 \/ (u # 0 /\ u \notin users)

\* voteModel.js 37-45: the INSERT branch; 50-56 and routes/votes.js 57-63
\* when the statement throws
createOrUpdateVoteInsert(h) ==
  LET p == h.req.property_id
      u == ActingUser(h.req)
      o == PgInteger(h.req.vote_option_id)
  IN
  /\ h.pc = "cov_write"
  /\ ~h.existing
  /\ IF o = NaN
       THEN /\ Fail(h, 500, "22P02")
            /\ UNCHANGED nextId
       ELSE /\ ~InsertPending(h, p, u)
            /\ nextId' = nextId + 1
            /\ IF UniqueViolation(votes, p, u)
                 THEN Fail(h, 500, "23505")
                 ELSE IF ForeignKeyViolation(p, u)
                   THEN Fail(h, 500, "23503")
                   ELSE Goto(h, [h EXCEPT
                          !.pc = "cov_commit",
                          !.pend = [op |-> "insert", id |-> nextId],
                          !.result = [id |-> nextId, property_id |-> p, user_id |-> u,
                                      vote_option_id |-> o]])
  /\ IF o = NaN \/ UniqueViolation(votes, p, u) \/ ForeignKeyViolation(p, u)
       THEN EndCall
       ELSE UNCHANGED <<checkedOut, openTxns>>
  /\ UNCHANGED <<votes, properties, served, submitted, lastApplied, users, running,
                 migrations, schemaRuns, images, nextImageId>>

\* voteModel.js 47-49 and routes/votes.js 53-56: COMMIT, return result.rows[0], 201
createOrUpdateVoteCommit(h) ==
  LET p == h.req.property_id
      u == ActingUser(h.req)
      o == PgInteger(h.req.vote_option_id)
  IN
  /\ h.pc = "cov_commit"
  /\ votes' = CASE h.pend.op = "update" -> UpdateVotes(votes, p, u, o)
                [] h.pend.op = "insert" -> InsertVote(votes, h.pend.id, p, u, o)
                [] OTHER -> votes
  /\ lastApplied' = IF h.pend.op = "none" THEN lastApplied
                    ELSE [lastApplied EXCEPT ![p][u] = o]
  /\ Respond(h, 201, "", h.result, {}, 0)
  /\ EndCall
  /\ UNCHANGED <<nextId, properties, served, submitted, users, running, migrations, schemaRuns, images, nextImageId>>

\* a call whose uncommitted write stays in the table when it throws
RollbackKeepsWrite(rows, h) ==
  CASE h.pend.op = "update" ->
         UpdateVotes(rows, h.req.property_id, h.req.user, PgInteger(h.req.vote_option_id))
    [] h.pend.op = "insert" ->
         InsertVote(rows, h.pend.id, h.req.property_id, h.req.user,
                    PgInteger(h.req.vote_option_id))
    [] OTHER -> rows

\* voteModel.js 18 and 50-51: the statements run between BEGIN and COMMIT, and
\* ROLLBACK (or the loss of the connection) discards the uncommitted write
Rollback(rows, h) == rows

\* voteModel.js 15-24, 30-47 and 50-56, routes/votes.js 57-63: the statement
\* the call awaits throws for a reason of its own (connection timeout or
\* loss, server error).  At "cov_select" it is pool.connect(), which has no
\* client to release, or BEGIN or SELECT, whose client is released again.
createOrUpdateVoteThrows(h) ==
  /\ h.pc \in {"cov_select", "cov_write", "cov_commit"}
  /\ votes' = Rollback(votes, h)
  /\ IF h.pc = "cov_select" THEN UNCHANGED <<checkedOut, openTxns>> ELSE EndCall
  /\ Fail(h, 500, "aborted")
  /\ UNCHANGED <<nextId, properties, served, submitted, lastApplied, users, running,
                 migrations, schemaRuns, images, nextImageId>>

(* ---- DELETE /api/votes/:propertyId ----------------------------------- *)
\* routes/votes.js 203-215: authenticate, property lookup
DeleteVoteRoute(u, p) ==
  LET r == Request("retract", u, p, <<>>)
  IN
  /\ Arrive
  /\ IF ~authenticate(u)
       THEN Reject(r, 401, "unauthorized")
       ELSE IF getPropertyById(p) = 0
         THEN Reject(r, 404, "not_found")
         ELSE Start(Handler(r, "dv_delete"))
  /\ UNCHANGED <<votes, nextId, properties, submitted, lastApplied, checkedOut, openTxns, users, running,
                 migrations, schemaRuns, images, nextImageId>>

\* a DELETE that matches no row
DeleteVotesKeepsRow(rows, p, u) == rows

\* DELETE FROM votes WHERE property_id = $1 AND user_id = $2
DeleteVotes(rows, p, u) == rows \ PairRows(rows, p, u)

\* VoteModel.deleteVote (voteModel.js 88-100) and routes/votes.js 218-229
deleteVote(h) ==
  LET p == h.req.property_id
      u == ActingUser(h.req)
      deleted == votes \ DeleteVotes(votes, p, u) # {}
  IN
  /\ h.pc = "dv_delete"
  /\ ~RowLocked(h, p, u)
  /\ votes' = DeleteVotes(votes, p, u)
  /\ lastApplied' = IF deleted THEN [lastApplied EXCEPT ![p][u] = 0] ELSE lastApplied
  /\ submitted' = IF deleted THEN [submitted EXCEPT ![p][u] = {}] ELSE submitted
  /\ IF deleted THEN Respond(h, 200, "", NoVote, {}, 0)
                ELSE Fail(h, 404, "no_vote")
  /\ UNCHANGED <<nextId, properties, served, checkedOut, openTxns, users, running,
                 migrations, schemaRuns, images, nextImageId>>

(* ---- GET /api/votes/my-vote/:propertyId ------------------------------- *)
\* routes/votes.js 165-177: authenticate, property lookup
MyVoteRoute(u, p) ==
  LET r == Request("myvote", u, p, <<>>)
  IN
  /\ Arrive
  /\ IF ~authenticate(u)
       THEN Reject(r, 401, "unauthorized")
       ELSE IF getPropertyById(p) = 0
         THEN Reject(r, 404, "not_found")
         ELSE Start(Handler(r, "gv_select"))
  /\ UNCHANGED <<votes, nextId, properties, submitted, lastApplied, checkedOut, openTxns, users, running,
                 migrations, schemaRuns, images, nextImageId>>

\* the query written from vote_options with a LEFT JOIN on votes: it has a
\* row, with a NULL vote, also when the pair has no vote
MyVoteQueryFromOptions(rows, p, u) ==
  IF PairRows(rows, p, u) = {} THEN {NoVote} ELSE PairRows(rows, p, u)

\* SELECT v.*, vo.name FROM votes v JOIN vote_options vo ON v.vote_option_id = vo.id
\* WHERE v.property_id = $1 AND v.user_id = $2
MyVoteQuery(rows, p, u) ==
  {v \in PairRows(rows, p, u) : \E vo \in VoteOptionsTable : vo.id = v.vote_option_id}

\* VoteModel.getVoteByUserAndProperty (voteModel.js 65-80) and routes/votes.js 179-188
getVoteByUserAndProperty(h) ==
  LET found == MyVoteQuery(votes, h.req.property_id, h.req.user)
  IN
  /\ h.pc = "gv_select"
  /\ IF found = {}
       THEN Fail(h, 404, "no_vote")
       ELSE Respond(h, 200, "", CHOOSE v \in found : TRUE, {}, 0)
  /\ UNCHANGED <<votes, nextId, properties, served, submitted, lastApplied, checkedOut, openTxns, users, running,
                 migrations, schemaRuns, images, nextImageId>>

(* ---- properties -------------------------------------------------------- *)
\* an open transaction holds a lock that a delete of property p has to wait for
PropertyBusy(p) == \E h \in Running : h.pend.op # "none" /\ h.req.property_id = p

\* PropertyModel.updateProperty with updateData.category_id (PUT /properties/:id)
updateProperty(p, c) ==
  /\ Arrive
  /\ properties[p] # 0
  /\ c # properties[p]
  /\ properties' = [properties EXCEPT ![p] = c]
  /\ Reject(Request("update_property", 0, p, <<>>), 200, "")
  /\ UNCHANGED <<votes, nextId, submitted, lastApplied, checkedOut, openTxns, users, running,
                 migrations, schemaRuns, images, nextImageId>>

\* PropertyModel.deleteProperty; votes.property_id is ON DELETE CASCADE
deleteProperty(p) ==
  /\ Arrive
  /\ properties[p] # 0
  /\ ~PropertyBusy(p)
  /\ properties' = [properties EXCEPT ![p] = 0]
  /\ votes' = {r \in votes : r.property_id # p}
  /\ lastApplied' = [lastApplied EXCEPT ![p] = [u \in UserIds |-> 0]]
  /\ submitted' = [submitted EXCEPT ![p] = [u \in UserIds |-> {}]]
  /\ images' = {i \in images : i.property_id # p}
  /\ Reject(Request("delete_property", 0, p, <<>>), 200, "")
  /\ UNCHANGED <<nextId, checkedOut, openTxns, users, running, migrations, schemaRuns,
                 nextImageId>>

\* an open transaction holds a lock that a delete of user u has to wait for:
\* on the users row, on u's vote row, or on a property of u
UserBusy(u) ==
  \E h \in Running :
    h.pend.op # "none" /\ (h.req.user = u \/ PropertyOwner(h.req.property_id) = u)

\* a delete of a user that leaves the user's votes and properties in place
DeleteUserNoCascade(rows, u) == rows

\* votes.user_id and votes.property_id are ON DELETE CASCADE, and so is
\* properties.user_id: the user's votes and the votes on the user's properties go
DeleteUserCascade(rows, u) ==
  {r \in rows : r.user_id # u /\ PropertyOwner(r.property_id) # u}

\* DELETE /users/:id: DELETE FROM users WHERE id = $1
deleteUser(u) ==
  /\ Arrive
  /\ u \in users
  /\ ~UserBusy(u)
  /\ users' = users \ {u}
  /\ properties' = [p \in PropIds |-> IF PropertyOwner(p) = u THEN 0 ELSE properties[p]]
  /\ votes' = DeleteUserCascade(votes, u)
  /\ lastApplied' = [p \in PropIds |-> [v \in UserIds |->
                       IF v = u \/ PropertyOwner(p) = u THEN 0 ELSE lastApplied[p][v]]]
  /\ submitted' = [p \in PropIds |-> [v \in UserIds |->
                     IF v = u \/ PropertyOwner(p) = u THEN {} ELSE submitted[p][v]]]
  /\ images' = {i \in images : PropertyOwner(i.property_id) # u}
  /\ Reject(Request("delete_user", u, 0, <<>>), 200, "")
  /\ UNCHANGED <<nextId, checkedOut, openTxns, running, migrations, schemaRuns, nextImageId>>

(* ---- GET /properties/:id/stats ---------------------------------------- *)
NullVote == NoVote

PropertiesTable == {[id |-> p, category_id |-> properties[p]] : p \in {q \in PropIds : properties[q] # 0}}

\* the join written as an inner join: options without votes drop out
InnerJoinVotes(rows, id) ==
  {j \in [vo : VoteOptionsTable, v : rows] :
     j.vo.id = j.v.vote_option_id /\ j.v.property_id = id}

\* FROM vote_options vo LEFT JOIN votes v
\*   ON vo.id = v.vote_option_id AND v.property_id = $1
LeftJoinVotes(rows, id) ==
  LET on(vo, v) == vo.id = v.vote_option_id /\ v.property_id = id
      matched == {j \in [vo : VoteOptionsTable, v : rows] : on(j.vo, j.v)}
      unmatched == {[vo |-> x, v |-> NullVote] :
                      x \in {y \in VoteOptionsTable : ~\E v \in rows : on(y, v)}}
  IN matched \cup unmatched

\* SUM(COUNT(v.id)) OVER (): the sum of vote_count over the rows of the result
RECURSIVE SumCounts(_)
SumCounts(S) ==
  IF S = {} THEN 0 ELSE LET s == CHOOSE x \in S : TRUE IN s.vote_count + SumCounts(S \ {s})

\* SQL NULL, as a number that is no count and no percentage
NULL == -1

\* NULLIF(a, b)
NULLIF(a, b) == IF a = b THEN NULL ELSE a

\* the percentage rounded to a whole number: ROUND(.., 0)
PercentageWholeNumber(n, d) ==
  IF d = NULL THEN NULL ELSE 100 * ((2 * n * 100 + d) \div (2 * d))

\* ROUND(n * 100.0 / d, 2) in hundredths of a percent, halves rounded up;
\* NULL when the divisor is NULL
Percentage(n, d) ==
  IF d = NULL THEN NULL ELSE (2 * n * 10000 + d) \div (2 * d)

\* the percentage column: COUNT(v.id) * 100.0 / NULLIF(SUM(COUNT(v.id)) OVER (), 0)
WithPercentage(grouped) ==
  {[vote_option_id |-> s.vote_option_id,
    vote_count |-> s.vote_count,
    percentage |-> Percentage(s.vote_count, NULLIF(SumCounts(grouped), 0))] : s \in grouped}

\* .. JOIN properties p ON p.id = $1 WHERE vo.category_id = p.category_id
\* GROUP BY vo.id, vo.name with COUNT(v.id): one row per group, NULLs not counted
StatisticsQuery(rows, id) ==
  LET joined == {j \in LeftJoinVotes(rows, id) :
                   \E pr \in PropertiesTable : pr.id = id /\ j.vo.category_id = pr.category_id}
      groups == {j.vo.id : j \in joined}
  IN WithPercentage(
       {[vote_option_id |-> g,
         vote_count |-> Cardinality({j \in joined : j.vo.id = g /\ j.v # NullVote})] :
          g \in groups})

\* SELECT COUNT(*) as total FROM votes WHERE property_id = $1
TotalQuery(rows, id) == Cardinality({r \in rows : r.property_id = id})

\* server 988-1004: the request arrives and the statistics query runs
PropertyStats(p) ==
  /\ Arrive
  /\ Start([Handler(Request("stats", 0, p, <<>>), "st_total")
              EXCEPT !.statistics = StatisticsQuery(votes, p)])
  /\ UNCHANGED <<votes, nextId, properties, submitted, lastApplied, checkedOut, openTxns, users, running,
                 migrations, schemaRuns, images, nextImageId>>

\* server 1006-1017: the total query runs and the response is sent
PropertyStatsTotal(h) ==
  /\ h.pc = "st_total"
  /\ Respond(h, 200, "", NoVote, h.statistics, TotalQuery(votes, h.req.property_id))
  /\ UNCHANGED <<votes, nextId, properties, served, submitted, lastApplied, checkedOut, openTxns, users, running,
                 migrations, schemaRuns, images, nextImageId>>

\* the rows GROUP BY vo.id gives the SELECT list for a property of category c
\* whose option o has counts[o] votes
GroupedCounts(c, counts) ==
  {[vote_option_id |-> vo.id, vote_count |-> counts[vo.id]] : vo \in getVoteOptionsByCategory(c)}

\* server 992-1017 on a votes table of any size: the statistics rows for the
\* per-option counts of a property of category c
TallyOf(c, counts) ==
  /\ running
  /\ response = NoResponse
  /\ response' = Response("stats", 200, "", NoVote,
                          WithPercentage(GroupedCounts(c, counts)),
                          SumCounts(GroupedCounts(c, counts)))
  /\ UNCHANGED <<votes, nextId, properties, inflight, served, submitted, lastApplied,
                 checkedOut, openTxns, users, running, migrations, schemaRuns, images, nextImageId>>

(* ---- GET /api/votes/property/:propertyId ------------------------------ *)
\* routes/votes.js 129-142: property lookup
VoteCountsRoute(p) ==
  LET r == Request("counts", 0, p, <<>>)
  IN
  /\ Arrive
  /\ IF getPropertyById(p) = 0
       THEN Reject(r, 404, "not_found")
       ELSE Start(Handler(r, "vc_counts"))
  /\ UNCHANGED <<votes, nextId, properties, submitted, lastApplied, checkedOut, openTxns, users, running,
                 migrations, schemaRuns, images, nextImageId>>

\* SELECT vo.id, vo.name, COUNT(*) as count FROM votes v
\* JOIN vote_options vo ON v.vote_option_id = vo.id WHERE v.property_id = $1
\* GROUP BY vo.id, vo.name
VoteCountsQuery(rows, id) ==
  LET joined == {j \in [v : rows, vo : VoteOptionsTable] :
                   j.v.vote_option_id = j.vo.id /\ j.v.property_id = id}
      groups == {j.vo.id : j \in joined}
  IN {[vote_option_id |-> g, vote_count |-> Cardinality({j \in joined : j.vo.id = g})] :
        g \in groups}

\* VoteModel.getVoteCountsByProperty (voteModel.js 107-124) and routes/votes.js
\* 144-151: votes: voteCounts, total: the sum of the counts
getVoteCountsByProperty(h) ==
  LET voteCounts == VoteCountsQuery(votes, h.req.property_id)
  IN
  /\ h.pc = "vc_counts"
  /\ Respond(h, 200, "", NoVote, voteCounts, SumCounts(voteCounts))
  /\ UNCHANGED <<votes, nextId, properties, served, submitted, lastApplied, checkedOut,
                 openTxns, users, running, migrations, schemaRuns, images, nextImageId>>

(* ---- POST /votes of the single-file JWT server ------------------------ *)
\* config/auth.js generateToken: the payload signed for user u (email and
\* names left out); it has no field uid
generateToken(u) == [id |-> u]

\* req.user.<field> of the decoded token: undefined, sent to the database as
\* NULL, when the payload has no such field
TokenField(payload, field) ==
  IF field \in DOMAIN payload THEN payload[field] ELSE NULL

\* users.firebase_uid of user u (VARCHAR UNIQUE NOT NULL), as a number
FirebaseUid(u) == NumUsers + u

\* SELECT id FROM users WHERE firebase_uid = $1: no row when $1 is NULL
UserByFirebaseUid(uid) ==
  {u \in users : uid # NULL /\ FirebaseUid(u) = uid}

\* req.body.vote_option_id of POST /votes: absent, or an option id
LegacyOptionIds == {<<>>} \cup BodyOptionIds

\* server 871-880: authenticateJWT accepts the token of user u, field check
LegacyPostVote(u, p, raw) ==
  LET r == Request("legacy_cast", u, p, raw)
  IN
  /\ Arrive
  /\ IF Falsy(raw)
       THEN Reject(r, 400, "missing")
       ELSE Start(Handler(r, "lv_user"))
  /\ UNCHANGED <<votes, nextId, properties, submitted, lastApplied, checkedOut, openTxns,
                 users, running, migrations, schemaRuns, images, nextImageId>>

\* server 882-895: the user row is looked up by req.user.uid
legacyUserLookup(h) ==
  LET userResult == UserByFirebaseUid(TokenField(generateToken(h.req.user), "uid"))
  IN
  /\ h.pc = "lv_user"
  /\ IF userResult = {}
       THEN Fail(h, 404, "user_not_found")
       ELSE Goto(h, [h EXCEPT !.pc = "lv_existing",
                              !.result = [NoVote EXCEPT !.user_id = CHOOSE u \in userResult : TRUE]])
  /\ UNCHANGED <<votes, nextId, properties, served, submitted, lastApplied, checkedOut,
                 openTxns, users, running, migrations, schemaRuns, images, nextImageId>>

\* server 897-907: SELECT * FROM votes WHERE user_id = $1 AND property_id = $2
legacyExistingVote(h) ==
  /\ h.pc = "lv_existing"
  /\ IF PairRows(votes, h.req.property_id, h.result.user_id) # {}
       THEN Fail(h, 400, "already_voted")
       ELSE Goto(h, [h EXCEPT !.pc = "lv_insert"])
  /\ UNCHANGED <<votes, nextId, properties, served, submitted, lastApplied, checkedOut,
                 openTxns, users, running, migrations, schemaRuns, images, nextImageId>>

\* server 909-927: INSERT INTO votes .. RETURNING * in autocommit, 201, or 500
\* when the statement throws
legacyInsert(h) ==
  LET p == h.req.property_id
      u == h.result.user_id
      o == PgInteger(h.req.vote_option_id)
      row == [id |-> nextId, property_id |-> p, user_id |-> u, vote_option_id |-> o]
      ok == o # NaN /\ ~UniqueViolation(votes, p, u) /\ ~ForeignKeyViolation(p, u)
                    /\ o \in OptionIds
  IN
  /\ h.pc = "lv_insert"
  /\ ~InsertPending(h, p, u)
  /\ nextId' = IF o = NaN THEN nextId ELSE nextId + 1
  /\ votes' = IF ok THEN InsertVote(votes, nextId, p, u, o) ELSE votes
  /\ lastApplied' = IF ok THEN [lastApplied EXCEPT ![p][u] = o] ELSE lastApplied
  /\ IF ok THEN Respond(h, 201, "", row, {}, 0) ELSE Fail(h, 500, "insert_failed")
  /\ UNCHANGED <<properties, served, submitted, checkedOut, openTxns, users, running,
                 migrations, schemaRuns, images, nextImageId>>

(* ---- /property_images (models/property_images.js) ---------------------- *)
ImageRequest(kind, p, id, b) ==
  [Request(kind, 0, p, <<>>) EXCEPT !.image_id = id, !.is_primary = b]

PropertyImage(id, p, b) == [id |-> id, property_id |-> p, is_primary |-> b]

\* UPDATE property_images SET is_primary = false WHERE property_id = $1 AND id != $2
\* (the POST route's statement has no id: 0 stands for none)
UnsetPrimary(rows, p, id) ==
  {IF i.property_id = p /\ i.id # id THEN [i EXCEPT !.is_primary = FALSE] ELSE i : i \in rows}

\* UPDATE property_images SET is_primary = $1 WHERE id = $2
SetPrimary(rows, id, b) ==
  {IF i.id = id THEN [i EXCEPT !.is_primary = b] ELSE i : i \in rows}

\* router.post('/') 92-110: field check; the request goes on to the unset
\* statement when is_primary is truthy, to the INSERT otherwise
PostPropertyImage(p, b) ==
  LET r == ImageRequest("image_post", p, 0, b)
  IN
  /\ Arrive
  /\ IF p = 0
       THEN Reject(r, 400, "missing")
       ELSE Start(Handler(r, IF b THEN "pi_unset" ELSE "pi_insert"))
  /\ UNCHANGED <<votes, nextId, properties, submitted, lastApplied, checkedOut, openTxns,
                 users, running, migrations, schemaRuns, images, nextImageId>>

\* 105-110: db.query(UPDATE .. SET is_primary = false WHERE property_id = $1)
postImageUnset(h) ==
  /\ h.pc = "pi_unset"
  /\ images' = UnsetPrimary(images, h.req.property_id, 0)
  /\ Goto(h, [h EXCEPT !.pc = "pi_insert"])
  /\ UNCHANGED <<votes, nextId, properties, served, submitted, lastApplied, checkedOut,
                 openTxns, users, running, migrations, schemaRuns, nextImageId>>

\* 112-128: db.query(INSERT INTO property_images ..), 201; 500 when the
\* property_id references no properties row
postImageInsert(h) ==
  LET p == h.req.property_id
  IN
  /\ h.pc = "pi_insert"
  /\ nextImageId' = nextImageId + 1
  /\ IF getPropertyById(p) = 0
       THEN Fail(h, 500, "23503") /\ UNCHANGED images
       ELSE /\ images' = images \cup {PropertyImage(nextImageId, p, h.req.is_primary)}
            /\ Respond(h, 201, "", NoVote, {}, 0)
  /\ UNCHANGED <<votes, nextId, properties, served, submitted, lastApplied, checkedOut,
                 openTxns, users, running, migrations, schemaRuns>>

\* updatePropertyImage 139-167 for a body with is_primary: the request goes
\* on to the SELECT when is_primary is truthy, to the UPDATE otherwise
updatePropertyImage(id, b) ==
  /\ Arrive
  /\ Start(Handler(ImageRequest("image_patch", 0, id, b), IF b THEN "upi_select" ELSE "upi_update"))
  /\ UNCHANGED <<votes, nextId, properties, submitted, lastApplied, checkedOut, openTxns,
                 users, running, migrations, schemaRuns, images, nextImageId>>

\* 168-169: SELECT property_id FROM property_images WHERE id = $1
updatePropertyImageSelect(h) ==
  LET found == {i \in images : i.id = h.req.image_id}
  IN
  /\ h.pc = "upi_select"
  /\ Goto(h, IF found = {}
               THEN [h EXCEPT !.pc = "upi_update"]
               ELSE [h EXCEPT !.pc = "upi_unset",
                              !.result = [NoVote EXCEPT !.property_id = (CHOOSE i \in found : TRUE).property_id]])
  /\ UNCHANGED <<votes, nextId, properties, served, submitted, lastApplied, checkedOut,
                 openTxns, users, running, migrations, schemaRuns, images, nextImageId>>

\* 170-173: UPDATE .. SET is_primary = false WHERE property_id = $1 AND id != $2
updatePropertyImageUnset(h) ==
  /\ h.pc = "upi_unset"
  /\ images' = UnsetPrimary(images, h.result.property_id, h.req.image_id)
  /\ Goto(h, [h EXCEPT !.pc = "upi_update"])
  /\ UNCHANGED <<votes, nextId, properties, served, submitted, lastApplied, checkedOut,
                 openTxns, users, running, migrations, schemaRuns, nextImageId>>

\* 191-213: UPDATE property_images SET is_primary = $1, .. WHERE id = $2
\* RETURNING ..; 404 when no row, 200 otherwise
updatePropertyImageUpdate(h) ==
  LET id == h.req.image_id
  IN
  /\ h.pc = "upi_update"
  /\ images' = SetPrimary(images, id, h.req.is_primary)
  /\ IF \E i \in images : i.id = id
       THEN Respond(h, 200, "", NoVote, {}, 0)
       ELSE Fail(h, 404, "not_found")
  /\ UNCHANGED <<votes, nextId, properties, served, submitted, lastApplied, checkedOut,
                 openTxns, users, running, migrations, schemaRuns, nextImageId>>

(* ---- runMigrations (utils/dbMigrate.js) ------------------------------- *)
\* a call of runMigrations: initializeDatabase at startup, or npm run migrate
RunMigrations ==
  /\ Arrive
  /\ Start(Handler(Request("migrate", 0, 0, <<>>), "rm_create"))
  /\ UNCHANGED <<votes, nextId, properties, submitted, lastApplied, checkedOut, openTxns,
                 users, running, migrations, schemaRuns, images, nextImageId>>

\* another open transaction has created table migrations and not committed
CreatePending(h) ==
  \E h2 \in Others(h) : h2.req.kind = "migrate" /\ h2.pend.id = 1

\* another open transaction holds the locks of DROP TABLE, or has read or
\* written table votes, and has not ended
SchemaLocked(h) ==
  \E h2 \in Others(h) : h2.pend.op = "schema" \/ h2.pc \in {"cov_write", "cov_commit"}

\* a migrations table without UNIQUE on filename
FilenameNotUnique(m) == FALSE

\* migrations.filename VARCHAR(255) NOT NULL UNIQUE: the row is there already
FilenameTaken(m) == m = "recorded"

\* pool.connect(), BEGIN, CREATE TABLE IF NOT EXISTS migrations; the CREATE
\* waits when another transaction has created the table and not committed
runMigrationsCreate(h) ==
  /\ h.pc = "rm_create"
  /\ Goto(h, IF migrations # "absent" THEN [h EXCEPT !.pc = "rm_check"]
             ELSE IF CreatePending(h) THEN [h EXCEPT !.pc = "rm_create_wait"]
             ELSE [h EXCEPT !.pc = "rm_check", !.pend = [op |-> "create", id |-> 1]])
  /\ checkedOut' = checkedOut + 1
  /\ openTxns' = openTxns + 1
  /\ UNCHANGED <<votes, nextId, properties, served, submitted, lastApplied, users, running,
                 migrations, schemaRuns, images, nextImageId>>

\* the waiting CREATE goes on when the other transaction has ended: duplicate
\* key in the catalog when that one committed, the table is created otherwise
runMigrationsCreateWaited(h) ==
  /\ h.pc = "rm_create_wait"
  /\ ~CreatePending(h)
  /\ IF migrations # "absent"
       THEN Fail(h, 0, "23505") /\ EndCall
       ELSE /\ Goto(h, [h EXCEPT !.pc = "rm_check", !.pend = [op |-> "create", id |-> 1]])
            /\ UNCHANGED <<checkedOut, openTxns>>
  /\ UNCHANGED <<votes, nextId, properties, served, submitted, lastApplied, users, running,
                 migrations, schemaRuns, images, nextImageId>>

\* isMigrationExecuted: SELECT id FROM migrations WHERE filename = $1; when
\* the row is there: COMMIT and return
runMigrationsCheck(h) ==
  LET hasRun == migrations = "recorded"
  IN
  /\ h.pc = "rm_check"
  /\ IF hasRun
       THEN Fail(h, 0, "skipped") /\ EndCall
       ELSE Goto(h, [h EXCEPT !.pc = "rm_schema"]) /\ UNCHANGED <<checkedOut, openTxns>>
  /\ UNCHANGED <<votes, nextId, properties, served, submitted, lastApplied, users, running,
                 migrations, schemaRuns, images, nextImageId>>

\* the statements of 001_initial_schema.sql, from DROP TABLE IF EXISTS votes
\* on: they wait for the locks of the tables and run inside the transaction
runMigrationsSchema(h) ==
  /\ h.pc = "rm_schema"
  /\ ~SchemaLocked(h)
  /\ Goto(h, [h EXCEPT !.pc = "rm_record", !.pend = [op |-> "schema", id |-> h.pend.id]])
  /\ UNCHANGED <<votes, nextId, properties, served, submitted, lastApplied, checkedOut,
                 openTxns, users, running, migrations, schemaRuns, images, nextImageId>>

\* recordMigration: INSERT INTO migrations (filename); ROLLBACK when it throws
runMigrationsRecord(h) ==
  /\ h.pc = "rm_record"
  /\ IF FilenameTaken(migrations)
       THEN Fail(h, 0, "23505") /\ EndCall
       ELSE Goto(h, [h EXCEPT !.pc = "rm_commit"]) /\ UNCHANGED <<checkedOut, openTxns>>
  /\ UNCHANGED <<votes, nextId, properties, served, submitted, lastApplied, users, running,
                 migrations, schemaRuns, images, nextImageId>>

\* COMMIT: the tables are dropped and made anew with the seed data, and the
\* migration is recorded
runMigrationsCommit(h) ==
  /\ h.pc = "rm_commit"
  /\ votes' = {}
  /\ nextId' = 1
  /\ properties' = [p \in PropIds |-> 0]
  /\ users' = {}
  /\ submitted' = [p \in PropIds |-> [u \in UserIds |-> {}]]
  /\ lastApplied' = [p \in PropIds |-> [u \in UserIds |-> 0]]
  /\ migrations' = "recorded"
  /\ schemaRuns' = schemaRuns + 1
  /\ images' = {}
  /\ nextImageId' = 1
  /\ Respond(h, 0, "", NoVote, {}, 0)
  /\ EndCall
  /\ UNCHANGED <<served, running>>

\* a statement of the call throws for a reason of its own: ROLLBACK in the
\* catch block; at "rm_create" pool.connect() may be what throws
runMigrationsThrows(h) ==
  /\ h.pc \in {"rm_create", "rm_create_wait", "rm_check", "rm_schema", "rm_record", "rm_commit"}
  /\ IF h.pc = "rm_create" THEN UNCHANGED <<checkedOut, openTxns>> ELSE EndCall
  /\ Fail(h, 0, "aborted")
  /\ UNCHANGED <<votes, nextId, properties, served, submitted, lastApplied, users, running,
                 migrations, schemaRuns, images, nextImageId>>

(* ---- db.pool --------------------------------------------------------- *)
\* pool.on('error', ..): a client that sits idle in the pool (the one left by
\* testConnection at startup, or by any query) loses its connection to the
\* database; the pool emits 'error' and the handler calls process.exit(-1).
\* The requests in flight die with the process and the database ends their
\* transactions.
poolError ==
  /\ running
  /\ running' = FALSE
  /\ inflight' = EmptyBag
  /\ response' = NoResponse
  /\ checkedOut' = 0
  /\ openTxns' = 0
  /\ UNCHANGED <<votes, nextId, properties, served, submitted, lastApplied, users,
                 migrations, schemaRuns, images, nextImageId>>

(* ---- specifications ---------------------------------------------------- *)
Next ==
  \/ \E u \in UserIds, p \in RequestPropIds, raw \in RawOptionIds : PostVote(u, p, raw)
  \/ \E h \in Running : createOrUpdateVoteSelect(h)
  \/ \E h \in Running : createOrUpdateVoteUpdate(h)
  \/ \E h \in Running : createOrUpdateVoteInsert(h)
  \/ \E h \in Running : createOrUpdateVoteCommit(h)
  \/ \E u \in UserIds, p \in RequestPropIds : DeleteVoteRoute(u, p)
  \/ \E h \in Running : deleteVote(h)
  \/ \E p \in RequestPropIds : PropertyStats(p)
  \/ \E h \in Running : PropertyStatsTotal(h)
  \/ \E p \in PropIds, c \in RequestCategories : updateProperty(p, c)
  \/ \E p \in PropIds : deleteProperty(p)

Spec == Init /\ [][Next]_vars

\* only POST /api/votes requests
NextCast ==
  \/ \E u \in UserIds, p \in RequestPropIds, raw \in RawOptionIds : PostVote(u, p, raw)
  \/ \E h \in Running : createOrUpdateVoteSelect(h)
  \/ \E h \in Running : createOrUpdateVoteUpdate(h)
  \/ \E h \in Running : createOrUpdateVoteInsert(h)
  \/ \E h \in Running : createOrUpdateVoteCommit(h)

SpecCast == Init /\ [][NextCast]_vars

\* only POST /api/votes and DELETE /api/votes/:propertyId requests
NextVotes ==
  \/ NextCast
  \/ \E u \in UserIds, p \in RequestPropIds : DeleteVoteRoute(u, p)
  \/ \E h \in Running : deleteVote(h)

SpecVotes == Init /\ [][NextVotes]_vars

\* the vote requests of a user: cast, retract and GET /api/votes/my-vote/:propertyId
NextMyVote ==
  \/ NextVotes
  \/ \E u \in UserIds, p \in RequestPropIds : MyVoteRoute(u, p)
  \/ \E h \in Running : getVoteByUserAndProperty(h)

SpecMyVote == Init /\ [][NextMyVote]_vars

\* POST /api/votes requests whose database statements can throw at any await
NextFault ==
  \/ NextCast
  \/ \E h \in Running : createOrUpdateVoteThrows(h)

SpecFault == Init /\ [][NextFault]_vars

\* POST /api/votes requests with deletions of properties and of users
NextCascade ==
  \/ NextCast
  \/ \E p \in PropIds : deleteProperty(p)
  \/ \E u \in UserIds : deleteUser(u)

SpecCascade == Init /\ [][NextCascade]_vars

\* casts whose body may name a user, and retractions
NextFrame ==
  \/ \E u \in UserIds, b \in BodyUserIds, p \in RequestPropIds, raw \in BodyOptionIds :
       PostVoteBody(u, b, p, raw)
  \/ \E h \in Running : createOrUpdateVoteSelect(h)
  \/ \E h \in Running : createOrUpdateVoteUpdate(h)
  \/ \E h \in Running : createOrUpdateVoteInsert(h)
  \/ \E h \in Running : createOrUpdateVoteCommit(h)
  \/ \E u \in UserIds, p \in RequestPropIds : DeleteVoteRoute(u, p)
  \/ \E h \in Running : deleteVote(h)

SpecFrame == Init /\ [][NextFrame]_vars

\* casts and GET /api/votes/property/:propertyId requests
NextCounts ==
  \/ NextCast
  \/ \E p \in RequestPropIds : VoteCountsRoute(p)
  \/ \E h \in Running : getVoteCountsByProperty(h)

SpecCounts == Init /\ [][NextCounts]_vars

\* POST /api/votes requests with failing statements and failing idle clients
NextPool ==
  \/ NextFault
  \/ poolError

SpecPool == Init /\ [][NextPool]_vars

\* the percentage column over all per-option counts up to MaxCount
NextPercent ==
  \E c \in RequestCategories :
    \E counts \in [{vo.id : vo \in getVoteOptionsByCategory(c)} -> 0..MaxCount] :
      TallyOf(c, counts)

SpecPercent == Init /\ [][NextPercent]_vars

\* POST /api/votes of the modular routes and POST /votes of the JWT server on
\* one database.  The user lookup of POST /votes finds no row for any token
\* of generateToken, so no invocation is ever at legacyExistingVote or
\* legacyInsert and the two are no disjuncts here.
NextLegacy ==
  \/ NextCast
  \/ \E u \in UserIds, p \in RequestPropIds, raw \in LegacyOptionIds :
       LegacyPostVote(u, p, raw)
  \/ \E h \in Running : legacyUserLookup(h)

SpecLegacy == Init /\ [][NextLegacy]_vars

\* casts and retractions with any Authorization header, and deletions of users
NextAuth ==
  \/ \E u \in TokenUsers, p \in RequestPropIds, raw \in BodyOptionIds : PostVote(u, p, raw)
  \/ \E h \in Running : createOrUpdateVoteSelect(h)
  \/ \E h \in Running : createOrUpdateVoteUpdate(h)
  \/ \E h \in Running : createOrUpdateVoteInsert(h)
  \/ \E h \in Running : createOrUpdateVoteCommit(h)
  \/ \E u \in TokenUsers, p \in RequestPropIds : DeleteVoteRoute(u, p)
  \/ \E h \in Running : deleteVote(h)
  \/ \E u \in UserIds : deleteUser(u)

SpecAuth == Init /\ [][NextAuth]_vars

\* POST /property_images and PATCH or PUT /property_images/:id requests
NextImages ==
  \/ \E p \in ImagePropertyIds, b \in BOOLEAN : PostPropertyImage(p, b)
  \/ \E h \in Running : postImageUnset(h)
  \/ \E h \in Running : postImageInsert(h)
  \/ \E id \in RequestImageIds, b \in BOOLEAN : updatePropertyImage(id, b)
  \/ \E h \in Running : updatePropertyImageSelect(h)
  \/ \E h \in Running : updatePropertyImageUnset(h)
  \/ \E h \in Running : updatePropertyImageUpdate(h)

SpecImages == Init /\ [][NextImages]_vars

\* calls of runMigrations on a database without the migration's record
NextMigrate ==
  \/ RunMigrations
  \/ \E h \in Running : runMigrationsCreate(h)
  \/ \E h \in Running : runMigrationsCreateWaited(h)
  \/ \E h \in Running : runMigrationsCheck(h)
  \/ \E h \in Running : runMigrationsSchema(h)
  \/ \E h \in Running : runMigrationsRecord(h)
  \/ \E h \in Running : runMigrationsCommit(h)
  \/ \E h \in Running : runMigrationsThrows(h)

SpecMigrate == InitMigrate /\ [][NextMigrate]_vars

(* ---- properties checked ------------------------------------------------ *)
Quiescent == inflight = EmptyBag

Pairs == PropIds \X UserIds

\* the value is the id of a vote option of category c
IsOptionOf(raw, c) ==
  PgInteger(raw) # NaN /\ \E vo \in VoteOptionsTable : vo.id = PgInteger(raw) /\ vo.category_id = c

\* invocation h sends its response in this step
Answers(h) == CopiesIn(h, inflight') < CopiesIn(h, inflight) /\ response' # NoResponse

\* invocation h commits a write on the row of pair (p, u) in this step
CommitsWrite(h, p, u) ==
  /\ h.pc = "cov_commit" /\ Answers(h)
  /\ h.pend.op # "none"
  /\ h.req.property_id = p /\ h.req.user = u

\* C1: in every reachable state there is at most one Vote row per
\* (property_id, user_id) pair, whatever the interleaving of requests
C1_OneVotePerPair ==
  \A pu \in Pairs : Cardinality(PairRows(votes, pu[1], pu[2])) <= 1

\* C1 witness: a second insert for a pair that has a row was refused by the constraint
C1_Witness ==
  /\ response.error = "23505"
  /\ \E pu \in Pairs : PairRows(votes, pu[1], pu[2]) # {}

\* C2: once concurrent casts of different valid options for one pair have all
\* finished, the pair has exactly one row and its option is one of those submitted
C2_ConcurrentCastsLeaveOneRow ==
  Quiescent =>
    \A pu \in Pairs :
      submitted[pu[1]][pu[2]] # {} =>
        \E r \in votes :
          /\ PairRows(votes, pu[1], pu[2]) = {r}
          /\ r.vote_option_id \in submitted[pu[1]][pu[2]]

\* C2 witness: two different options were cast for one pair, the calls overlapped
\* (one of them lost the insert race) and all calls have finished
C2_Witness ==
  /\ Quiescent
  /\ response.kind = "cast" /\ response.error = "23505"
  /\ \E pu \in Pairs : Cardinality(submitted[pu[1]][pu[2]]) >= 2

\* C3 (as claimed): no cast with valid arguments ends by surfacing the
\* duplicate-key error of a lost insert race to its caller
C3_NoConflictSurfaced ==
  ~(response.kind = "cast" /\ response.error = "23505")

\* C4: after any sequence of casts for a pair with no retraction in between,
\* exactly one row exists for the pair and holds the option of the last
\* applied cast
C4_LastAppliedOption ==
  \A pu \in Pairs :
    lastApplied[pu[1]][pu[2]] # 0 =>
      \E r \in votes :
        /\ PairRows(votes, pu[1], pu[2]) = {r}
        /\ r.vote_option_id = lastApplied[pu[1]][pu[2]]

\* C4 witness: two options were cast for a pair, one call inserted and the other
\* updated the row in place, and both have finished
C4_Witness ==
  /\ Quiescent
  /\ nextId = 2
  /\ response.kind = "cast" /\ response.status = 201
  /\ \E pu \in Pairs :
       /\ Cardinality(submitted[pu[1]][pu[2]]) >= 2
       /\ response.vote.property_id = pu[1] /\ response.vote.user_id = pu[2]
       /\ lastApplied[pu[1]][pu[2]] = response.vote.vote_option_id
  /\ response.vote \in votes

C6_InvalidOptionRejected ==
  [][/\ \A h \in Running :
          (/\ h.req.kind = "cast" /\ Answers(h)
           /\ getPropertyById(h.req.property_id) # 0
           /\ ~IsOptionOf(h.req.vote_option_id, getPropertyById(h.req.property_id)))
          => (response'.status = 400 /\ votes' = votes)
     /\ \A u \in UserIds, p \in PropIds, raw \in RawOptionIds :
          (/\ PostVote(u, p, raw) /\ response' # NoResponse
           /\ getPropertyById(p) # 0
           /\ ~IsOptionOf(raw, getPropertyById(p)))
          => (response'.status = 400 /\ votes' = votes)]_vars

\* C7 (as claimed): in every tally response the per-option counts sum to the
\* returned total_votes
C7_TallySnapshot ==
  (response.kind = "stats" /\ response.status = 200) =>
    SumCounts(response.statistics) = response.total_votes

\* C8: for an existing property the statistics list has exactly one entry for
\* every vote option of the property's category, none of another category, each
\* with the number of the property's votes for that option
C8_StatisticsCoverCategory ==
  [][\A h \in BagToSet(inflight') :
       (/\ h.pc = "st_total"
        /\ CopiesIn(h, inflight') > CopiesIn(h, inflight)
        /\ getPropertyById(h.req.property_id) # 0)
       => LET p == h.req.property_id
              opts == {o \in OptionIds : OptionCategory(o) = properties[p]}
          IN /\ {s.vote_option_id : s \in h.statistics} = opts
             /\ Cardinality(h.statistics) = Cardinality(opts)
             /\ \A s \in h.statistics :
                  s.vote_count =
                    Cardinality({r \in votes : r.property_id = p
                                               /\ r.vote_option_id = s.vote_option_id})]_vars

\* C8 witness: a statistics result with a voted option and an option with zero votes
C8_Witness ==
  \E h \in Running :
    /\ h.pc = "st_total"
    /\ \E s \in h.statistics : s.vote_count = 0
    /\ \E s \in h.statistics : s.vote_count >= 1

\* C9 (as claimed): a cast that returns successfully returns the Vote record of
\* the pair with the requested option, and that row is in the table
C9_SuccessReturnsWrittenVote ==
  [][\A h \in Running :
       (h.req.kind = "cast" /\ Answers(h) /\ response'.status = 201)
       => /\ response'.vote.property_id = h.req.property_id
          /\ response'.vote.user_id = h.req.user
          /\ response'.vote.vote_option_id = PgInteger(h.req.vote_option_id)
          /\ response'.vote \in votes']_vars

\* C10: the option of a pair's row is the one written by the cast transaction
\* that committed last; nothing but a commit changes it
C10_LastCommitWins ==
  [][\A pu \in Pairs :
       /\ \A h \in Running :
            CommitsWrite(h, pu[1], pu[2]) =>
              /\ PairRows(votes', pu[1], pu[2]) # {}
              /\ \A r \in PairRows(votes', pu[1], pu[2]) :
                   r.vote_option_id = PgInteger(h.req.vote_option_id)
       /\ (~\E h \in Running : CommitsWrite(h, pu[1], pu[2])) =>
            PairRows(votes', pu[1], pu[2]) = PairRows(votes, pu[1], pu[2])]_vars

\* C10 witness: a cast has just committed its option on a pair's row while
\* another cast for the pair, with a different option, is between its SELECT,
\* which saw the row, and its UPDATE
C10_Witness ==
  \E h \in Running :
    /\ h.pc = "cov_write" /\ h.existing
    /\ response.kind = "cast" /\ response.status = 201
    /\ response.vote.property_id = h.req.property_id
    /\ response.vote.user_id = h.req.user
    /\ PgInteger(h.req.vote_option_id) # NaN
    /\ response.vote.vote_option_id # PgInteger(h.req.vote_option_id)
    /\ response.vote \in votes

\* the vote_count the statistics list gives option o, 0 when it has no entry
StatCount(stats, o) ==
  IF \E s \in stats : s.vote_option_id = o
    THEN (CHOOSE s \in stats : s.vote_option_id = o).vote_count
    ELSE 0

\* C11: when a cast commits option B on the row of a pair that holds option A,
\* A # B, the tally of the property loses one vote for A, gains one for B, keeps
\* every other option's count and keeps its total
C11_RepeatVoteMovesOneVote ==
  [][\A pu \in Pairs : \A h \in Running : \A r \in PairRows(votes, pu[1], pu[2]) :
       (/\ CommitsWrite(h, pu[1], pu[2])
        /\ r.vote_option_id # PgInteger(h.req.vote_option_id))
       => LET A == r.vote_option_id
              B == PgInteger(h.req.vote_option_id)
              before == StatisticsQuery(votes, pu[1])
              after == StatisticsQuery(votes', pu[1])
          IN /\ StatCount(after, A) = StatCount(before, A) - 1
             /\ StatCount(after, B) = StatCount(before, B) + 1
             /\ \A o \in OptionIds \ {A, B} : StatCount(after, o) = StatCount(before, o)
             /\ TotalQuery(votes', pu[1]) = TotalQuery(votes, pu[1])]_vars

\* C11 witness: a pair's first cast inserted option A, its second cast has just
\* committed option B in place: the tally counts B once, A not at all, total 1
C11_Witness ==
  /\ Quiescent
  /\ nextId = 2
  /\ response.kind = "cast" /\ response.status = 201 /\ response.vote \in votes
  /\ \E A \in submitted[response.vote.property_id][response.vote.user_id] :
       /\ A # response.vote.vote_option_id
       /\ StatCount(StatisticsQuery(votes, response.vote.property_id), A) = 0
  /\ StatCount(StatisticsQuery(votes, response.vote.property_id),
               response.vote.vote_option_id) = 1
  /\ TotalQuery(votes, response.vote.property_id) = 1

\* C12: a cast that commits the option the pair's row already holds leaves the
\* votes table as it was (same single row, same id, same option)
C12_SameOptionTwiceIsNoChange ==
  [][\A pu \in Pairs : \A h \in Running :
       (/\ CommitsWrite(h, pu[1], pu[2])
        /\ \E r \in PairRows(votes, pu[1], pu[2]) :
              r.vote_option_id = PgInteger(h.req.vote_option_id))
       => votes' = votes]_vars

\* C12 witness: the second cast of an option has run its UPDATE on the pair's
\* row, which holds that option from the first cast, and is about to commit
C12_Witness ==
  \E h \in Running :
    /\ h.pc = "cov_commit" /\ h.pend.op = "update"
    /\ \E r \in PairRows(votes, h.req.property_id, h.req.user) :
         /\ r.vote_option_id = PgInteger(h.req.vote_option_id)
         /\ h.result = r

\* C13: a retraction that finds the pair's row deletes it and answers 200; one
\* that finds no row answers 404 and leaves the votes table unchanged
C13_RetractDeletesOrNotFound ==
  [][\A h \in Running :
       (h.req.kind = "retract" /\ Answers(h))
       => IF PairRows(votes, h.req.property_id, h.req.user) # {}
            THEN /\ response'.status = 200
                 /\ votes' = votes \ PairRows(votes, h.req.property_id, h.req.user)
                 /\ PairRows(votes', h.req.property_id, h.req.user) = {}
            ELSE /\ response'.status = 404
                 /\ votes' = votes]_vars

\* C13 witness: a vote was inserted and retracted, and the second retraction
\* right after has just been answered 404
C13_Witness ==
  /\ Quiescent
  /\ nextId = 2
  /\ votes = {}
  /\ response.kind = "retract" /\ response.status = 404 /\ response.error = "no_vote"

\* C14: a retraction leaves the pair without a row (C13), and as long as no cast
\* commits a row for the pair, GET my-vote for it is answered 404 with no vote;
\* it answers 200 with the pair's row only when there is one, and writes nothing
C14_NoVoteAfterRetract ==
  [][\A h \in Running :
       (h.req.kind = "myvote" /\ Answers(h))
       => /\ votes' = votes
          /\ IF PairRows(votes, h.req.property_id, h.req.user) = {}
               THEN response'.status = 404 /\ response'.vote = NoVote
               ELSE /\ response'.status = 200
                    /\ response'.vote \in PairRows(votes, h.req.property_id, h.req.user)]_vars

\* C14 witness: a vote was inserted and retracted, and the my-vote request made
\* right after has just been answered 404
C14_Witness ==
  /\ Quiescent
  /\ nextId = 2
  /\ votes = {}
  /\ response.kind = "myvote" /\ response.status = 404 /\ response.error = "no_vote"

\* C15: a createOrUpdateVote call that fails at any step up to COMMIT leaves
\* the votes table as it was: the table changes only in the step in which a
\* cast commits and is answered 201, so no uncommitted row is ever visible.
C15_FailedCastWritesNothing ==
  [][votes' # votes => response'.kind = "cast" /\ response'.status = 201]_vars

\* an INSERT was executed (the sequence moved on) and thrown away at COMMIT
C15_Witness ==
  /\ Quiescent
  /\ nextId = 2
  /\ votes = {}
  /\ response.kind = "cast"
  /\ response.error = "aborted"

\* the createOrUpdateVote calls between pool.connect() and their return
InCall ==
  BagCardinality([h \in {x \in Running : x.pc \in {"cov_write", "cov_commit"}} |-> inflight[h]])

\* C16: every createOrUpdateVote call ends its transaction and releases its
\* client exactly once before it returns: the clients checked out and the
\* open transactions are exactly those of the calls still running.
C16_TransactionEndedClientReleased ==
  /\ checkedOut = InCall
  /\ openTxns = InCall

\* one call committed, a later one threw, and the pool has all its clients back
C16_Witness ==
  /\ Quiescent
  /\ checkedOut = 0
  /\ openTxns = 0
  /\ votes # {}
  /\ response.kind = "cast"
  /\ response.error = "aborted"

\* C17: a cast for a property that does not exist is answered 404 and writes
\* nothing, also when the property was deleted after the route's existence
\* check: whenever a cast is answered while its property is gone, the answer
\* is 404 and the votes table is unchanged.
C17_MissingPropertyIsNotFound ==
  [][\A h \in Running :
       (h.req.kind = "cast" /\ Answers(h) /\ getPropertyById(h.req.property_id) = 0) =>
         /\ response'.status = 404
         /\ votes' = votes]_vars

\* C18: the tally of a property id that references no property fails with
\* NotFound (404) instead of answering with a successful empty tally.
C18_TallyOfMissingPropertyIsNotFound ==
  [][\A h \in Running :
       (h.req.kind = "stats" /\ Answers(h) /\ h.req.property_id \notin PropIds) =>
         response'.status = 404]_vars

\* C19: in every reachable state every votes row references an existing
\* property and an existing user, also when a property or a user is deleted
\* while a cast for it is in flight.
C19_VotesReferenceExistingRows ==
  \A r \in votes : getPropertyById(r.property_id) # 0 /\ r.user_id \in users

\* of two requests, the cast committed its INSERT and the user's deletion,
\* answered last, removed the row
C19_Witness ==
  /\ Quiescent
  /\ served = 2
  /\ nextId = 2
  /\ votes = {}
  /\ users # UserIds
  /\ response.kind = "delete_user"

C21_RevoteAccepted ==
  [][\A h \in Running :
       (/\ h.req.kind = "cast"
        /\ Answers(h)
        /\ h.existing
        /\ PgInteger(h.req.vote_option_id) # NaN) =>
         /\ response'.status = 201
         /\ DOMAIN response'.vote = DOMAIN NoVote
         /\ response'.vote.vote_option_id = PgInteger(h.req.vote_option_id)
         /\ \E r \in PairRows(votes, h.req.property_id, h.req.user) :
              response'.vote = [r EXCEPT !.vote_option_id = PgInteger(h.req.vote_option_id)]
         /\ PairRows(votes', h.req.property_id, h.req.user) = {response'.vote}]_vars

\* two different options were accepted for the pair, one INSERT ran, and the
\* second cast was answered 201 with the row holding its option
C21_Witness ==
  /\ Quiescent
  /\ nextId = 2
  /\ response.kind = "cast"
  /\ response.status = 201
  /\ votes = {response.vote}
  /\ response.vote.id = 1
  /\ Cardinality(submitted[response.vote.property_id][response.vote.user_id]) = 2
  /\ lastApplied[response.vote.property_id][response.vote.user_id] = response.vote.vote_option_id

\* C22: when the property has no votes the tally gives percentage 0 for every
\* option of its category, never a null percentage.
C22_ZeroPercentWithoutVotes ==
  (/\ response.kind = "stats"
   /\ response.status = 200
   /\ SumCounts(response.statistics) = 0) =>
    \A s \in response.statistics : s.percentage = 0

\* C23: the vote counts of GET /api/votes/property/:propertyId have an entry
\* for every vote option of the property's category, options without votes
\* included.
C23_VoteCountsCoverCategory ==
  [][\A h \in Running :
       (h.req.kind = "counts" /\ Answers(h) /\ response'.status = 200) =>
         {s.vote_option_id : s \in response'.statistics}
           = {vo.id : vo \in getVoteOptionsByCategory(getPropertyById(h.req.property_id))}]_vars

\* C24: no error of the vote service or of its database access ends the
\* server process: the process keeps running in every reachable state.
C24_ProcessKeepsServing ==
  running

\* the sum of the percentage column, in hundredths of a percent
RECURSIVE SumPercentages(_)
SumPercentages(S) ==
  IF S = {} THEN 0
  ELSE LET s == CHOOSE x \in S : TRUE IN s.percentage + SumPercentages(S \ {s})

C26_LegacyFirstVoteCreated ==
  [][\A h \in Running :
       (/\ h.req.kind = "legacy_cast"
        /\ Answers(h)
        /\ h.req.user \in users
        /\ getPropertyById(h.req.property_id) # 0
        /\ IsOptionOf(h.req.vote_option_id, getPropertyById(h.req.property_id))
        /\ PairRows(votes, h.req.property_id, h.req.user) = {}) =>
         /\ response'.status = 201
         /\ response'.vote.user_id = h.req.user
         /\ votes' = votes \cup {response'.vote}
         /\ response'.vote \notin votes]_vars

\* C28: POST /votes of the JWT server answers 400 and leaves the row as it is
\* when the user already has a vote on the property, and however many first
\* votes for a pair run at once, a 201 inserts the pair's only row.
C28_LegacyCheckThenInsert ==
  [][\A h \in Running :
       (h.req.kind = "legacy_cast" /\ Answers(h) /\ h.req.user \in users) =>
         IF PairRows(votes, h.req.property_id, h.req.user) # {}
           THEN response'.status = 400 /\ votes' = votes
           ELSE response'.status = 201 =>
                  PairRows(votes', h.req.property_id, h.req.user) = {response'.vote}]_vars

\* C27: over any sequential or concurrent calls of runMigrations the
\* statements of 001_initial_schema.sql take effect at most once, and exactly
\* when the migration is recorded; once it is recorded no call changes a
\* table or the record, and a call that fails or skips changes nothing.
C27_SchemaAppliedAtMostOnce ==
  [][/\ schemaRuns' <= 1
     /\ (schemaRuns' = 1) <=> (migrations' = "recorded")
     /\ (migrations = "recorded" \/ response'.error # "") =>
          /\ migrations' = migrations
          /\ <<votes, nextId, properties, users>>' = <<votes, nextId, properties, users>>]_vars

\* two calls both found the migration not recorded; one committed it, the
\* other ran the statements after it and was rolled back at its INSERT
C27_Witness ==
  /\ Quiescent
  /\ schemaRuns = 1
  /\ migrations = "recorded"
  /\ users = {}
  /\ response.kind = "migrate"
  /\ response.error = "23505"
  /\ served = 2

\* C29: a POST /votes or DELETE /votes/:propertyId request whose token is
\* missing, invalid or of no users row is answered 401, starts no handler
\* and leaves table votes as it is; every handler that an arriving request
\* starts belongs to a request whose token maps to a users row.
C29_UnauthenticatedNeverReachesHandler ==
  [][/\ \A u \in TokenUsers, p \in RequestPropIds :
          (u \notin users /\ (DeleteVoteRoute(u, p) \/ \E raw \in BodyOptionIds : PostVote(u, p, raw))) =>
            /\ response'.status = 401
            /\ inflight' = inflight
            /\ votes' = votes
     /\ \A h \in BagToSet(inflight') :
          (/\ served' = served + 1
           /\ CopiesIn(h, inflight') > CopiesIn(h, inflight)
           /\ h.req.kind \in {"cast", "retract"}) => h.req.user \in users]_vars

\* a retraction without a usable token is answered 401 while the votes table
\* holds the vote of a user
C29_Witness ==
  /\ response.kind = "retract"
  /\ response.status = 401
  /\ users = UserIds
  /\ votes # {}

\* the images of property p that are marked primary
PrimaryImages(p) == {i \in images : i.property_id = p /\ i.is_primary}

====
